---- MODULE Spec2Model ----
(***************************************************************************)
(* A model of src/history/backend/main.py: the question-answering pipeline *)
(* of chat_structured (query interpreter, retrieval filter, artist         *)
(* resolver, answer composer) and the ingestion / memory handlers          *)
(* (upsert_items, rebuild_embeddings, distill_and_store_memory).           *)
(*                                                                         *)
(* Python str values are TLC strings (Len, \o, SubSeq, Tail apply to       *)
(* them); Optional[str] is a sequence of zero or one string.               *)
(***************************************************************************)
EXTENDS Integers, Sequences, FiniteSets, TLC

----------------------------------------------------------------------------
(* Python str primitives                                                   *)

None == << >>

Some(v) == << v >>

\* Python truthiness of an Optional[str]: None and "" are falsy.
Truthy(o) == o # None /\ o[1] # ""

Char(s, i) == SubSeq(s, i, i)

Range(seq) == {seq[k] : k \in 1..Len(seq)}

\* s[i:i+len(sub)] == sub
StartsAt(s, sub, i) ==
    /\ i >= 1
    /\ i + Len(sub) - 1 <= Len(s)
    /\ SubSeq(s, i, i + Len(sub) - 1) = sub

\* sub in s
Contains(s, sub) == \E i \in 1..(Len(s) - Len(sub) + 1) : StartsAt(s, sub, i)

\* s.startswith(sub)
StartsWith(s, sub) == StartsAt(s, sub, 1)

RECURSIVE Find(_, _, _)
\* the least index >= from at which sub occurs in s, 0 when there is none
Find(s, sub, from) ==
    IF from + Len(sub) - 1 > Len(s) THEN 0
    ELSE IF StartsAt(s, sub, from) THEN from
    ELSE Find(s, sub, from + 1)

UpperLetters == "ABCDEFGHIJKLMNOPQRSTUVWXYZ"

LowerLetters == "abcdefghijklmnopqrstuvwxyz"

DigitChars == "0123456789"

\* the lower-case letter of each upper-case letter
LowerMap ==
    [c \in {Char(UpperLetters, k) : k \in 1..Len(UpperLetters)} |->
        Char(LowerLetters, CHOOSE k \in 1..Len(UpperLetters) : Char(UpperLetters, k) = c)]

LowerChar(c) == IF c \in DOMAIN LowerMap THEN LowerMap[c] ELSE c

RECURSIVE Lower(_)
\* s.lower()
Lower(s) == IF s = "" THEN "" ELSE LowerChar(Char(s, 1)) \o Lower(Tail(s))

\* the upper-case letter of each lower-case letter
UpperMap ==
    [c \in {Char(LowerLetters, k) : k \in 1..Len(LowerLetters)} |->
        Char(UpperLetters, CHOOSE k \in 1..Len(LowerLetters) : Char(LowerLetters, k) = c)]

UpperChar(c) == IF c \in DOMAIN UpperMap THEN UpperMap[c] ELSE c

RECURSIVE Upper(_)
\* s.upper()
Upper(s) == IF s = "" THEN "" ELSE UpperChar(Char(s, 1)) \o Upper(Tail(s))

\* what \s matches
IsSpace(c) == c \in {" ", "\t", "\n"}

DigitSet == {Char(DigitChars, k) : k \in 1..Len(DigitChars)}

\* what \d matches
IsDigit(c) == c \in DigitSet

IsDigitAt(s, i) == i >= 1 /\ i <= Len(s) /\ IsDigit(Char(s, i))

RECURSIVE SpaceRun(_, _)
\* the number of consecutive whitespace characters of s from index i on
SpaceRun(s, i) ==
    IF i >= 1 /\ i <= Len(s) /\ IsSpace(Char(s, i)) THEN 1 + SpaceRun(s, i + 1) ELSE 0

RECURSIVE WordRun(_, _)
\* the number of consecutive non-whitespace characters of s from index i on
WordRun(s, i) ==
    IF i >= 1 /\ i <= Len(s) /\ ~IsSpace(Char(s, i)) THEN 1 + WordRun(s, i + 1) ELSE 0

RECURSIVE SpaceRunBack(_, _)
\* the number of consecutive whitespace characters of s from index i backwards
SpaceRunBack(s, i) ==
    IF i >= 1 /\ i <= Len(s) /\ IsSpace(Char(s, i)) THEN 1 + SpaceRunBack(s, i - 1) ELSE 0

\* s.strip()
Strip(s) == SubSeq(s, 1 + SpaceRun(s, 1), Len(s) - SpaceRunBack(s, Len(s)))

RECURSIVE SplitFrom(_, _)
\* s.split(): the maximal runs of non-whitespace characters, in order
SplitFrom(s, i) ==
    LET b == i + SpaceRun(s, i)
        e == b + WordRun(s, b)
    IN  IF b > Len(s) THEN << >>
        ELSE << SubSeq(s, b, e - 1) >> \o SplitFrom(s, e)

Split(s) == SplitFrom(s, 1)

\* the value of each decimal digit
DigitValue == [c \in DigitSet |-> (CHOOSE k \in 1..Len(DigitChars) : Char(DigitChars, k) = c) - 1]

RECURSIVE StrToInt(_)
\* int(s) of a string of decimal digits
StrToInt(s) ==
    IF s = "" THEN 0
    ELSE 10 * StrToInt(SubSeq(s, 1, Len(s) - 1)) + DigitValue[Char(s, Len(s))]

RECURSIVE IntToStr(_)
\* str(n) for n >= 0
IntToStr(n) ==
    IF n < 10 THEN Char(DigitChars, n + 1)
    ELSE IntToStr(n \div 10) \o Char(DigitChars, (n % 10) + 1)

RECURSIVE ZFill(_, _)
\* s.zfill(w), and the :0wd format of a non-negative integer
ZFill(s, w) == IF Len(s) >= w THEN s ELSE ZFill("0" \o s, w)

Min(a, b) == IF a <= b THEN a ELSE b

----------------------------------------------------------------------------
(* datetime: a calendar day is [y, m, d]                                   *)

IsLeap(y) == (y % 4 = 0 /\ y % 100 # 0) \/ y % 400 = 0

DaysInMonth(y, m) ==
    IF m = 2 THEN (IF IsLeap(y) THEN 29 ELSE 28)
    ELSE IF m \in {4, 6, 9, 11} THEN 30 ELSE 31

PrevDay(dt) ==
    IF dt.d > 1 THEN [dt EXCEPT !.d = dt.d - 1]
    ELSE IF dt.m > 1 THEN [y |-> dt.y, m |-> dt.m - 1, d |-> DaysInMonth(dt.y, dt.m - 1)]
    ELSE [y |-> dt.y - 1, m |-> 12, d |-> 31]

RECURSIVE MinusDays(_, _)
\* dt - timedelta(days=n)
MinusDays(dt, n) == IF n = 0 THEN dt ELSE MinusDays(PrevDay(dt), n - 1)

\* dt.strftime("%Y-%m-%d")
FormatYMD(dt) ==
    ZFill(IntToStr(dt.y), 4) \o "-" \o ZFill(IntToStr(dt.m), 2)
        \o "-" \o ZFill(IntToStr(dt.d), 2)

MonthNames == << "January", "February", "March", "April", "May", "June", "July",
                 "August", "September", "October", "November", "December" >>

DayNames == << "Sunday", "Monday", "Tuesday", "Wednesday", "Thursday", "Friday",
               "Saturday" >>

\* dt.strftime("%A"): the day of the week of a Gregorian date
WeekdayName(dt) ==
    LET t == << 0, 3, 2, 5, 0, 3, 5, 1, 4, 6, 2, 4 >>
        yy == IF dt.m < 3 THEN dt.y - 1 ELSE dt.y
    IN  DayNames[((yy + (yy \div 4) - (yy \div 100) + (yy \div 400) + t[dt.m] + dt.d) % 7) + 1]

\* datetime.strptime(s, "%Y-%m-%d"): None stands for the ValueError
ParseYMD(s) ==
    LET d1 == Find(s, "-", 1)
        d2 == IF d1 = 0 THEN 0 ELSE Find(s, "-", d1 + 1)
        ys == SubSeq(s, 1, d1 - 1)
        ms == SubSeq(s, d1 + 1, d2 - 1)
        ds == SubSeq(s, d2 + 1, Len(s))
        AllDigits(x) == \A i \in 1..Len(x) : IsDigitAt(x, i)
    IN  IF /\ d1 # 0 /\ d2 # 0
           /\ Len(ys) = 4 /\ Len(ms) \in {1, 2} /\ Len(ds) \in {1, 2}
           /\ AllDigits(ys) /\ AllDigits(ms) /\ AllDigits(ds)
           /\ StrToInt(ys) >= 1
           /\ StrToInt(ms) \in 1..12
           /\ StrToInt(ds) \in 1..DaysInMonth(StrToInt(ys), StrToInt(ms))
        THEN Some([y |-> StrToInt(ys), m |-> StrToInt(ms), d |-> StrToInt(ds)])
        ELSE None

----------------------------------------------------------------------------
(* Query interpreter: extract_date, extract_domain                         *)

\* the months dict of extract_date, in its insertion order
months ==
    << [name |-> "jan", num |-> 1], [name |-> "january", num |-> 1],
       [name |-> "feb", num |-> 2], [name |-> "february", num |-> 2],
       [name |-> "mar", num |-> 3], [name |-> "march", num |-> 3],
       [name |-> "apr", num |-> 4], [name |-> "april", num |-> 4],
       [name |-> "may", num |-> 5],
       [name |-> "jun", num |-> 6], [name |-> "june", num |-> 6],
       [name |-> "jul", num |-> 7], [name |-> "july", num |-> 7],
       [name |-> "aug", num |-> 8], [name |-> "august", num |-> 8],
       [name |-> "sep", num |-> 9], [name |-> "september", num |-> 9],
       [name |-> "oct", num |-> 10], [name |-> "october", num |-> 10],
       [name |-> "nov", num |-> 11], [name |-> "november", num |-> 11],
       [name |-> "dec", num |-> 12], [name |-> "december", num |-> 12] >>

\* the least element of a non-empty set of integers
Least(S) == CHOOSE i \in S : \A j \in S : i <= j

\* the length a greedy \d{1,2} takes at index i of s (0: no digit there)
Digits12(s, i) ==
    IF IsDigitAt(s, i) /\ IsDigitAt(s, i + 1) THEN 2
    ELSE IF IsDigitAt(s, i) THEN 1 ELSE 0

\* the length \d{1,2} takes at index i of s when sep must follow it (0: no match)
Digits12Then(s, i, sep) ==
    IF IsDigitAt(s, i) /\ IsDigitAt(s, i + 1) /\ StartsAt(s, sep, i + 2) THEN 2
    ELSE IF IsDigitAt(s, i) /\ StartsAt(s, sep, i + 1) THEN 1 ELSE 0

\* re.search(rf'{name}\s+(\d{{4}})', q): group 1, or None
SearchNameYear(q, name) ==
    LET P(i) == i + Len(name) + SpaceRun(q, i + Len(name))
        hits == {i \in 1..Len(q) :
                    /\ StartsAt(q, name, i)
                    /\ SpaceRun(q, i + Len(name)) >= 1
                    /\ \A k \in 0..3 : IsDigitAt(q, P(i) + k)}
    IN  IF hits = {} THEN None ELSE Some(SubSeq(q, P(Least(hits)), P(Least(hits)) + 3))

\* re.search(rf'{name}\s*(\d{{1,2}})', q): group 1, or None
SearchNameDay(q, name) ==
    LET P(i) == i + Len(name) + SpaceRun(q, i + Len(name))
        hits == {i \in 1..Len(q) : StartsAt(q, name, i) /\ IsDigitAt(q, P(i))}
    IN  IF hits = {} THEN None
        ELSE Some(SubSeq(q, P(Least(hits)), P(Least(hits)) + Digits12(q, P(Least(hits))) - 1))

\* re.search(rf'(\d{{1,2}})\s*{name}', q): group 1, or None
SearchDayName(q, name) ==
    LET NameAfter(p) == StartsAt(q, name, p + SpaceRun(q, p))
        Two(i) == IsDigitAt(q, i) /\ IsDigitAt(q, i + 1) /\ NameAfter(i + 2)
        One(i) == IsDigitAt(q, i) /\ NameAfter(i + 1)
        hits == {i \in 1..Len(q) : Two(i) \/ One(i)}
    IN  IF hits = {} THEN None
        ELSE IF Two(Least(hits)) THEN Some(SubSeq(q, Least(hits), Least(hits) + 1))
        ELSE Some(Char(q, Least(hits)))

\* one iteration of the loop over months.items(): the date returned, or None
MonthRule(q, name, num, current_year) ==
    LET m_year == SearchNameYear(q, name)
        m1 == SearchNameDay(q, name)
        m2 == SearchDayName(q, name)
        mm == ZFill(IntToStr(num), 2)
    IN  IF m_year # None
        THEN Some(IntToStr(StrToInt(m_year[1])) \o "-" \o mm)
        ELSE IF m1 # None
        THEN Some(IntToStr(current_year) \o "-" \o mm \o "-" \o ZFill(IntToStr(StrToInt(m1[1])), 2))
        ELSE IF m2 # None
        THEN Some(IntToStr(current_year) \o "-" \o mm \o "-" \o ZFill(IntToStr(StrToInt(m2[1])), 2))
        ELSE IF Contains(q, name) /\ Len(name) > 3
        THEN Some(IntToStr(current_year) \o "-" \o mm)
        ELSE None

RECURSIVE MonthLoop(_, _, _)
MonthLoop(q, k, current_year) ==
    IF k > Len(months) THEN None
    ELSE LET r == MonthRule(q, months[k].name, months[k].num, current_year)
         IN  IF r # None THEN r ELSE MonthLoop(q, k + 1, current_year)

\* re.search(r'(\d{4})-(\d{1,2})-(\d{1,2})', q), rendered y-mm-dd, or None
SearchIsoDate(q) ==
    LET Mo(i) == Digits12Then(q, i + 5, "-")
        hits == {i \in 1..Len(q) :
                    /\ \A k \in 0..3 : IsDigitAt(q, i + k)
                    /\ StartsAt(q, "-", i + 4)
                    /\ Mo(i) # 0
                    /\ IsDigitAt(q, i + 5 + Mo(i) + 1)}
        i0 == Least(hits)
        b == i0 + 5 + Mo(i0) + 1
    IN  IF hits = {} THEN None
        ELSE Some(SubSeq(q, i0, i0 + 3) \o "-" \o ZFill(SubSeq(q, i0 + 5, i0 + 4 + Mo(i0)), 2)
                    \o "-" \o ZFill(SubSeq(q, b, b + Digits12(q, b) - 1), 2))

\* re.search(r'(\d{1,2})/(\d{1,2})/(\d{4})', q), rendered y-mm-dd, or None
SearchUsDate(q) ==
    LET L1(i) == Digits12Then(q, i, "/")
        L2(i) == Digits12Then(q, i + L1(i) + 1, "/")
        Y(i) == i + L1(i) + 1 + L2(i) + 1
        hits == {i \in 1..Len(q) :
                    /\ L1(i) # 0
                    /\ L2(i) # 0
                    /\ \A k \in 0..3 : IsDigitAt(q, Y(i) + k)}
        i0 == Least(hits)
    IN  IF hits = {} THEN None
        ELSE Some(SubSeq(q, Y(i0), Y(i0) + 3) \o "-" \o ZFill(SubSeq(q, i0, i0 + L1(i0) - 1), 2)
                    \o "-" \o ZFill(SubSeq(q, i0 + L1(i0) + 1, i0 + L1(i0) + L2(i0)), 2))

\* extract_date(query), with datetime.now() = now
extract_date(query, now) ==
    LET q == Lower(query)
        byMonth == MonthLoop(q, 1, now.y)
    IN  IF Contains(q, "yesterday") THEN Some(FormatYMD(MinusDays(now, 1)))
        ELSE IF Contains(q, "today") THEN Some(FormatYMD(now))
        ELSE IF Contains(q, "last week") THEN Some(FormatYMD(MinusDays(now, 7)))
        ELSE IF Contains(q, "this week") THEN Some(FormatYMD(now))
        ELSE IF byMonth # None THEN byMonth
        ELSE IF SearchIsoDate(q) # None THEN SearchIsoDate(q)
        ELSE SearchUsDate(q)

\* the mapping dict of extract_domain, in its insertion order
mapping ==
    << [k |-> "youtube", v |-> "youtube.com"], [k |-> "spotify", v |-> "spotify.com"],
       [k |-> "github", v |-> "github.com"], [k |-> "leetcode", v |-> "leetcode.com"],
       [k |-> "google docs", v |-> "docs.google.com"], [k |-> "gmail", v |-> "mail.google.com"],
       [k |-> "x.com", v |-> "x.com"], [k |-> "twitter", v |-> "x.com"] >>

\* extract_domain(query)
extract_domain(query) ==
    LET q == Lower(query)
        hits == {i \in 1..Len(mapping) : Contains(q, mapping[i].k)}
    IN  IF hits = {} THEN None ELSE Some(mapping[Least(hits)].v)

\* any(w in q for w in words)
AnyIn(q, words) == \E w \in words : Contains(q, w)

ExclusionPhrases ==
    { "apart from song", "except song", "besides song", "other than song",
      "excluding song", "not song", "no song" }

MusicTriggers == { "song", "music", "sing", "artist", "track" }

\* exclude_music of chat_structured
ExcludeMusic(q_lower) == AnyIn(q_lower, ExclusionPhrases)

\* exclude_youtube of chat_structured
ExcludeYoutube(q_lower) ==
    Contains(q_lower, "apart from youtube") \/ Contains(q_lower, "except youtube")

\* is_music_query of chat_structured
\* is_music_query without the "not exclude_music" conjunct
IsMusicQueryUnguarded(q_lower) == AnyIn(q_lower, MusicTriggers)

IsMusicQuery(q_lower) == ~ExcludeMusic(q_lower) /\ AnyIn(q_lower, MusicTriggers)

\* the date rendering appended to the query text; nothing when strptime raises
DateHint(date_filter) ==
    LET dt == IF Len(date_filter[1]) = 7 THEN ParseYMD(date_filter[1] \o "-01")
              ELSE ParseYMD(date_filter[1])
    IN  IF ~Truthy(date_filter) \/ dt = None THEN ""
        ELSE IF Len(date_filter[1]) = 7
        THEN " " \o MonthNames[dt[1].m] \o " " \o ZFill(IntToStr(dt[1].y), 4)
        ELSE " " \o WeekdayName(dt[1]) \o " " \o MonthNames[dt[1].m] \o " "
                 \o ZFill(IntToStr(dt[1].d), 2) \o " " \o ZFill(IntToStr(dt[1].y), 4)

\* the keyword hints appended to the query text
IntentHint(q_lower) ==
    IF IsMusicQuery(q_lower)
    THEN " music audio video song"
         \o (IF Contains(q_lower, "piano") THEN " piano acoustic instrumental" ELSE "")
         \o (IF Contains(q_lower, "guitar") THEN " guitar acoustic" ELSE "")
         \o (IF Contains(q_lower, "rain") THEN " rain" ELSE "")
         \o (IF Contains(q_lower, "danc") THEN " dancing dance" ELSE "")
         \o (IF AnyIn(q_lower, {"girl", "woman", "female", "she"}) THEN " female woman girl" ELSE "")
         \o (IF AnyIn(q_lower, {"boy", "man", "male", "he"}) THEN " male man boy" ELSE "")
         \o (IF Contains(q_lower, "duet") \/ Contains(q_lower, "together")
             THEN " duet collaboration featuring" ELSE "")
    ELSE IF ExcludeMusic(q_lower) THEN " browsing web article page website"
    ELSE ""

\* enhanced: the text chat_structured sends to embed_query
Enhanced(message, date_filter) ==
    message \o DateHint(date_filter) \o IntentHint(Lower(message))

----------------------------------------------------------------------------
(* The history records the model works on                                  *)

NoContent == [k \in {} |-> ""]

Nov4 == [y |-> 2026, m |-> 11, d |-> 4]

Nov3 == [y |-> 2026, m |-> 11, d |-> 3]

Oct12 == [y |-> 2026, m |-> 10, d |-> 12]

\* the history records the model ingests
Catalog ==
    << [id |-> "h1", title |-> "Taylor Swift - Love Story (Official Video)",
        url |-> "https://www.youtube.com/watch?v=1", domain |-> "youtube.com",
        visit |-> Nov4, dayOfWeek |-> 3, hour |-> 14,
        extracted_content |-> [k \in {"contextual_keywords"} |-> "rain, night"]],
       [id |-> "h2", title |-> "(1) Taylor Swift - Love Story (Official Video)",
        url |-> "https://www.youtube.com/watch?v=1", domain |-> "youtube.com",
        visit |-> Nov3, dayOfWeek |-> 2, hour |-> 22, extracted_content |-> NoContent],
       [id |-> "h3", title |-> "Taylor Momsen, Slash & Dave - Heaven ft. Swift",
        url |-> "https://music.youtube.com/watch?v=2", domain |-> "music.youtube.com",
        visit |-> Nov4, dayOfWeek |-> 3, hour |-> 5, extracted_content |-> NoContent],
       [id |-> "h4", title |-> "Cooking pasta tutorial",
        url |-> "https://www.youtube.com/watch?v=3", domain |-> "youtube.com",
        visit |-> Oct12, dayOfWeek |-> 1, hour |-> 17, extracted_content |-> NoContent],
       [id |-> "h5", title |-> "torvalds/linux: Linux kernel source tree",
        url |-> "https://github.com/torvalds/linux", domain |-> "github.com",
        visit |-> Oct12, dayOfWeek |-> 1, hour |-> 12, extracted_content |-> NoContent],
       [id |-> "h6", title |-> "Discover Weekly",
        url |-> "https://open.spotify.com/playlist/1", domain |-> "spotify.com",
        visit |-> Nov4, dayOfWeek |-> 3, hour |-> 4, extracted_content |-> NoContent],
       [id |-> "h7", title |-> " - Untitled",
        url |-> "https://example.org/aws", domain |-> "example.org",
        visit |-> Nov4, dayOfWeek |-> 3, hour |-> 11, extracted_content |-> NoContent] >>

\* the first record as the browser reports it after the page changed its title:
\* the same domain, calendar day and URL
Revisited ==
    [Catalog[1] EXCEPT !.id = "h8", !.title = "Taylor Swift - Love Story (Lyric Video)",
                       !.hour = 15]

KnownItems == {Catalog[k] : k \in 1..Len(Catalog)} \union {Revisited}

KnownTitles == {Catalog[k].title : k \in 1..Len(Catalog)}

----------------------------------------------------------------------------
(* Artist resolver: extract_artist_from_query                              *)

stop_words ==
    { "songs", "song", "music", "by", "from", "what", "which", "show", "me",
      "did", "i", "listen", "to", "today", "yesterday", "last", "week",
      "the", "a", "an", "my", "all", "any", "that", "in", "on" }

\* [x for x in seq if Keep(x)]
RECURSIVE SelectSeqFrom(_, _, _)
SelectSeqFrom(seq, Keep(_), k) ==
    IF k > Len(seq) THEN << >>
    ELSE (IF Keep(seq[k]) THEN << seq[k] >> ELSE << >>) \o SelectSeqFrom(seq, Keep, k + 1)

\* query_tokens of extract_artist_from_query
QueryTokens(q_lower) ==
    LET Keep(w) == w \notin stop_words /\ Len(w) > 2
    IN  SelectSeqFrom(Split(q_lower), Keep, 1)

\* re.sub(r'^\(\d+\)\s*', '', s)
StripNumPrefix(s) ==
    LET ends == {j \in 3..Len(s) :
                    /\ StartsAt(s, ")", j)
                    /\ \A k \in 2..(j - 1) : IsDigitAt(s, k)}
        close == Least(ends)
    IN  IF StartsWith(s, "(") /\ ends # {}
        THEN SubSeq(s, close + 1 + SpaceRun(s, close + 1), Len(s))
        ELSE s

\* feat_patterns: lit \.? \s+ (group) and a closing parenthesis for the first
\* two; the group is a greedy run of characters outside stops.
feat_patterns ==
    << [lit |-> "(feat", dot |-> TRUE, stops |-> {")"}, close |-> TRUE],
       [lit |-> "(ft", dot |-> TRUE, stops |-> {")"}, close |-> TRUE],
       [lit |-> "feat", dot |-> TRUE, stops |-> {",", ")"}, close |-> FALSE],
       [lit |-> "ft", dot |-> TRUE, stops |-> {",", ")"}, close |-> FALSE],
       [lit |-> "featuring", dot |-> FALSE, stops |-> {",", ")"}, close |-> FALSE],
       [lit |-> "with", dot |-> FALSE, stops |-> {",", ")"}, close |-> FALSE] >>

RECURSIVE RunOutside(_, _, _)
\* the number of consecutive characters of s from index i on that lie outside stops
RunOutside(s, i, stops) ==
    IF i >= 1 /\ i <= Len(s) /\ Char(s, i) \notin stops
    THEN 1 + RunOutside(s, i + 1, stops) ELSE 0

\* An attempt to match pattern pat at index i of t: [ok, group, next], next the
\* index after the match. \s+ takes the whole whitespace run unless the group
\* would then be empty, in which case it gives its last character to the group.
FeatMatchAt(t, pat, i) ==
    LET p1 == i + Len(pat.lit)
        p2 == IF pat.dot /\ StartsAt(t, ".", p1) THEN p1 + 1 ELSE p1
        w == SpaceRun(t, p2)
        g == p2 + w
        e == g + RunOutside(t, g, pat.stops)
        gs == IF e > g THEN g ELSE g - 1
        ok == /\ StartsAt(t, pat.lit, i)
              /\ w >= 1
              /\ (e > g \/ w >= 2)
              /\ (pat.close => StartsAt(t, ")", e))
    IN  [ok |-> ok,
         group |-> IF ok THEN SubSeq(t, gs, e - 1) ELSE "",
         next |-> IF ~ok THEN i + 1 ELSE IF pat.close THEN e + 1 ELSE e]

RECURSIVE FeatGroups(_, _, _)
\* {m.group(1) for m in re.finditer(pattern, t)}, scanning from index pos
FeatGroups(t, pat, pos) ==
    IF pos > Len(t) THEN {}
    ELSE IF StartsAt(t, pat.lit, pos) /\ FeatMatchAt(t, pat, pos).ok
    THEN {FeatMatchAt(t, pat, pos).group} \union FeatGroups(t, pat, FeatMatchAt(t, pat, pos).next)
    ELSE FeatGroups(t, pat, pos + 1)

\* the candidates one title adds to all_artists
TitleArtists(title) ==
    LET cut == Find(title, " - ", 1)
        main == IF cut = 0 THEN {}
                ELSE {StripNumPrefix(Strip(SubSeq(title, 1, cut - 1)))}
        feats == UNION {FeatGroups(Lower(title), feat_patterns[k], 1) : k \in 1..Len(feat_patterns)}
    IN  main \union {StripNumPrefix(Strip(g)) : g \in feats}

\* TitleArtists over the titles the model stores (evaluated once)
TitleArtistsOf == [title \in KnownTitles |-> TitleArtists(title)]

ArtistsOfTitle(title) ==
    IF title \in KnownTitles THEN TitleArtistsOf[title] ELSE TitleArtists(title)

\* all_artists of extract_artist_from_query
AllArtists(available_titles) ==
    UNION {ArtistsOfTitle(available_titles[k]) : k \in 1..Len(available_titles)}

\* the orders in which a set can be iterated
Orders(S) ==
    {f \in [1..Cardinality(S) -> S] : \A a, b \in 1..Cardinality(S) : f[a] = f[b] => a = b}

RECURSIVE SumOver(_, _, _)
SumOver(seq, F(_), k) == IF k > Len(seq) THEN 0 ELSE F(seq[k]) + SumOver(seq, F, k + 1)

\* the score without the credit for a token that is part of the other
ArtistScoreExactOnly(query_tokens, artist_tokens) ==
    LET Pair(qt, at) == IF qt = at THEN 2 ELSE 0
        Row(qt) == LET Cell(at) == Pair(qt, at) IN SumOver(artist_tokens, Cell, 1)
    IN  SumOver(query_tokens, Row, 1)

\* the score of one candidate artist against the question tokens
ArtistScore(query_tokens, artist_tokens) ==
    LET Pair(qt, at) == IF qt = at THEN 2
                        ELSE IF Contains(at, qt) \/ Contains(qt, at) THEN 1 ELSE 0
        Row(qt) == LET Cell(at) == Pair(qt, at) IN SumOver(artist_tokens, Cell, 1)
    IN  SumOver(query_tokens, Row, 1)

RECURSIVE ArtistLoop(_, _, _, _, _, _)
\* the loop "for artist in all_artists", the set being iterated in order `order`
ArtistLoop(order, k, q_lower, query_tokens, best_match, best_score) ==
    IF k > Len(order)
    THEN (IF best_score >= 1 THEN best_match ELSE None)
    ELSE LET artist == order[k]
             artist_lower == Lower(artist)
             score == ArtistScore(query_tokens, Split(artist_lower))
         IN  IF Contains(q_lower, artist_lower) THEN Some(artist)
             ELSE IF score > best_score
             THEN ArtistLoop(order, k + 1, q_lower, query_tokens, Some(artist), score)
             ELSE ArtistLoop(order, k + 1, q_lower, query_tokens, best_match, best_score)

\* extract_artist_from_query(query, available_titles); order is the iteration
\* order of the set all_artists
extract_artist_from_query(query, available_titles, order) ==
    LET q_lower == Lower(query)
        query_tokens == QueryTokens(q_lower)
    IN  IF query_tokens = << >> THEN None
        ELSE ArtistLoop(order, 1, q_lower, query_tokens, None, 0)

----------------------------------------------------------------------------
(* Retrieval filter of chat_structured.  A candidate is its metadata       *)
(* record; docs_h and metas_h are filtered in parallel and keep equal      *)
(* lengths, so one sequence stands for both.                               *)

\* the date test without the month prefix rule
DateMatchesExactOnly(date_filter, visit_date) == visit_date = date_filter

\* the date test of the structured filter pass
DateMatches(date_filter, visit_date) ==
    IF Len(date_filter) = 7 THEN StartsWith(visit_date, date_filter)
    ELSE visit_date = date_filter

\* match of the structured filter pass, for one candidate
StructuredMatch(meta, date_filter, domain_filter) ==
    /\ Truthy(date_filter) => DateMatches(date_filter[1], meta.visit_date)
    /\ Truthy(domain_filter) => meta.domain = domain_filter[1]

\* the date/domain post-filter
StructuredFilter(metas, date_filter, domain_filter) ==
    LET Keep(meta) == StructuredMatch(meta, date_filter, domain_filter)
    IN  IF Truthy(date_filter) \/ Truthy(domain_filter)
        THEN SelectSeqFrom(metas, Keep, 1)
        ELSE metas

\* available_titles
Titles(metas) == [k \in 1..Len(metas) |-> metas[k].title]

MusicIndicators ==
    { "official audio", "official video", "music video", "lyric", "lyrics",
      "(audio)", "(official)", "ft.", "feat." }

MusicTerms == { " - ", "official", "audio", "music", "ft", "feat" }

YoutubeDomains == { "youtube.com", "music.youtube.com" }

MusicCategories == { "media", "music streaming" }

\* the chain without its last elif (the content category)
MusicExcludedNoCategory(meta) ==
    \/ AnyIn(Lower(meta.title), MusicIndicators)
    \/ Lower(meta.domain) \in YoutubeDomains /\ AnyIn(Lower(meta.title), MusicTerms)

\* the if / elif / elif chain under "if exclude_music"
MusicExcluded(meta) ==
    LET title_lower == Lower(meta.title)
        domain == Lower(meta.domain)
        category == Lower(meta.content_category)
    IN  IF AnyIn(title_lower, MusicIndicators) THEN TRUE
        ELSE IF domain \in YoutubeDomains THEN AnyIn(title_lower, MusicTerms)
        ELSE category \in MusicCategories

\* should_exclude with the artist compared as extracted, not lower-cased
ShouldExcludeCaseSensitive(meta, artist_filter, is_music_query, exclude_music, exclude_youtube) ==
    \/ /\ Truthy(artist_filter) /\ is_music_query
       /\ ~Contains(Lower(meta.title), artist_filter[1])
    \/ exclude_music /\ MusicExcluded(meta)
    \/ exclude_youtube /\ Contains(Lower(meta.domain), "youtube.com")

\* should_exclude of the exclusion pass, for one candidate
ShouldExclude(meta, artist_filter, is_music_query, exclude_music, exclude_youtube) ==
    \/ /\ Truthy(artist_filter) /\ is_music_query
       /\ ~Contains(Lower(meta.title), Lower(artist_filter[1]))
    \/ exclude_music /\ MusicExcluded(meta)
    \/ exclude_youtube /\ Contains(Lower(meta.domain), "youtube.com")

\* final_metas: the exclusion and artist pass
ExclusionPass(metas, artist_filter, is_music_query, exclude_music, exclude_youtube) ==
    LET Keep(meta) == ~ShouldExclude(meta, artist_filter, is_music_query,
                                     exclude_music, exclude_youtube)
    IN  SelectSeqFrom(metas, Keep, 1)

\* seq[:k]
Slice(seq, k) ==
    IF k >= 0 THEN SubSeq(seq, 1, Min(k, Len(seq)))
    ELSE SubSeq(seq, 1, Len(seq) + k)

\* a truncation that is off by one
TruncateOneMore(final_metas, top_k) == SubSeq(final_metas, 1, Min(top_k + 1, Len(final_metas)))

\* final_metas[:req.top_k]
Truncate(final_metas, top_k) == Slice(final_metas, top_k)

\* the empty answers without the artist case
EmptyAnswerNoArtist(artist_filter, date_filter, domain_filter) ==
    IF Truthy(date_filter) /\ Truthy(domain_filter)
    THEN "No " \o domain_filter[1] \o " activity found from " \o date_filter[1] \o "."
    ELSE "No matching results found."

\* the answer returned when nothing survives
EmptyAnswer(artist_filter, date_filter, domain_filter) ==
    IF Truthy(artist_filter)
    THEN "No songs featuring " \o artist_filter[1] \o " found."
    ELSE IF Truthy(date_filter) /\ Truthy(domain_filter)
    THEN "No " \o domain_filter[1] \o " activity found from " \o date_filter[1] \o "."
    ELSE "No matching results found."

\* mk_sources
mk_sources(metas) ==
    [k \in 1..Len(metas) |->
        [url |-> metas[k].url,
         title |-> metas[k].title,
         meta |-> Strip(metas[k].visit_date \o " " \o metas[k].day_name
                        \o " " \o metas[k].time_period)]]

----------------------------------------------------------------------------
(* Answer composer of chat_structured                                      *)

\* the printable ASCII characters in code-point order (the backquote left out)
AsciiTable ==
    " !\"#$%&'()*+,-./0123456789:;<=>?@ABCDEFGHIJKLMNOPQRSTUVWXYZ[\\]^_abcdefghijklmnopqrstuvwxyz{|}~"

\* the rank of each character of AsciiTable
CharRank ==
    [c \in {Char(AsciiTable, k) : k \in 1..Len(AsciiTable)} |->
        CHOOSE k \in 1..Len(AsciiTable) : Char(AsciiTable, k) = c]

\* the rank of a character; the control characters come first
Rank(c) == IF c \in DOMAIN CharRank THEN CharRank[c] ELSE 0

RECURSIVE StrLess(_, _)
\* a < b on Python str
StrLess(a, b) ==
    IF a = "" THEN b # ""
    ELSE IF b = "" THEN FALSE
    ELSE IF Char(a, 1) = Char(b, 1) THEN StrLess(Tail(a), Tail(b))
    ELSE Rank(Char(a, 1)) < Rank(Char(b, 1))

RECURSIVE SortedStrs(_)
\* sorted(S) for a set of strings
SortedStrs(S) ==
    IF S = {} THEN << >>
    ELSE LET lo == CHOOSE a \in S : \A b \in S \ {a} : StrLess(a, b)
         IN  << lo >> \o SortedStrs(S \ {lo})

RECURSIVE Join(_, _)
\* sep.join(lines)
Join(lines, sep) ==
    IF lines = << >> THEN ""
    ELSE IF Len(lines) = 1 THEN lines[1]
    ELSE lines[1] \o sep \o Join(Tail(lines), sep)

RECURSIVE SplitOn(_, _)
\* s.split(sep)
SplitOn(s, sep) ==
    LET cut == Find(s, sep, 1)
    IN  IF cut = 0 THEN << s >>
        ELSE << SubSeq(s, 1, cut - 1) >> \o SplitOn(SubSeq(s, cut + Len(sep), Len(s)), sep)

RECURSIVE StripAnnotations(_)
\* re.sub(r'\s*[\(\[].*?[\)\]]', '', s)
StripAnnotations(s) ==
    LET Closers(o) == {c \in (o + 1)..Len(s) : Char(s, c) \in {")", "]"}}
        Opens(i) == LET o == i + SpaceRun(s, i)
                    IN  /\ o <= Len(s)
                        /\ Char(s, o) \in {"(", "["}
                        /\ Closers(o) # {}
                        /\ \A j \in (o + 1)..(Least(Closers(o)) - 1) : Char(s, j) # "\n"
        hits == {i \in 1..Len(s) : Opens(i)}
        i0 == Least(hits)
        c0 == Least(Closers(i0 + SpaceRun(s, i0)))
    IN  IF hits = {} THEN s
        ELSE SubSeq(s, 1, i0 - 1) \o StripAnnotations(SubSeq(s, c0 + 1, Len(s)))

\* the number of places at which sub occurs in s
Occurrences(s, sub) == Cardinality({i \in 1..Len(s) : StartsAt(s, sub, i)})

\* artist_count
ArtistCount(artist) ==
    IF \/ Contains(artist, ", ") \/ Contains(artist, " & ")
       \/ Contains(Lower(artist), " feat") \/ Contains(Lower(artist), " ft.")
    THEN 1 + Occurrences(artist, ",") + Occurrences(artist, "&")
           + Occurrences(artist, " feat") + Occurrences(artist, " ft")
    ELSE 1

\* title_clean: the key under which a song is deduplicated
\* title_clean without the removal of the leading counter
NormalizedTitleKeepsPrefix(title) == Strip(Lower(title))

NormalizedTitle(title) == Strip(Lower(StripNumPrefix(title)))

\* ', '.join(context_info)
SongContext(meta) ==
    Join((IF meta.contextual_keywords # "" THEN << meta.contextual_keywords >> ELSE << >>)
         \o (IF meta.video_type # "" THEN << meta.video_type >> ELSE << >>), ", ")

\* the dict appended to unique_songs for the candidate at position i
SongEntry(meta, i) ==
    LET title_display == StripNumPrefix(meta.title)
        cut == Find(title_display, " - ", 1)
    IN  [artist |-> IF cut = 0 THEN "Unknown" ELSE Strip(SubSeq(title_display, 1, cut - 1)),
         song |-> IF cut = 0 THEN title_display
                  ELSE Strip(StripAnnotations(Strip(SubSeq(title_display, cut + 3, Len(title_display))))),
         title |-> title_display,
         citation |-> i,
         artist_count |-> IF cut = 0 THEN 1
                          ELSE ArtistCount(Strip(SubSeq(title_display, 1, cut - 1))),
         context |-> SongContext(meta)]

RECURSIVE UniqueSongsFrom(_, _, _)
\* unique_songs: the loop over enumerate(metas_h) from position i on
UniqueSongsFrom(metas, i, seen_titles) ==
    IF i > Len(metas) THEN << >>
    ELSE IF NormalizedTitle(metas[i].title) \in seen_titles
            \/ StripNumPrefix(metas[i].title) = ""
    THEN UniqueSongsFrom(metas, i + 1, seen_titles)
    ELSE << SongEntry(metas[i], i) >>
            \o UniqueSongsFrom(metas, i + 1, seen_titles \union {NormalizedTitle(metas[i].title)})

UniqueSongs(metas) == UniqueSongsFrom(metas, 1, {})

\* one song line; the bullet character U+2022 is written *
SongLine(song, with_context) ==
    "* " \o song.artist \o " - " \o song.song
         \o (IF with_context /\ song.context # "" THEN " (" \o song.context \o ")" ELSE "")
         \o " [#" \o IntToStr(song.citation) \o "]"

SongLines(songs, with_context) == [k \in 1..Len(songs) |-> SongLine(songs[k], with_context)]

ArtistModeCap == 20

ThreeArtistCap == 5

FallbackCap == 10

DescriptionCap == 10

DefaultModeCap == 15

CategoryCap == 5

\* the music branch: [lines, cited], cited the entries rendered, in order
MusicAnswer(metas, q_lower, artist_filter) ==
    LET unique_songs == UniqueSongs(metas)
        Three(song) == song.artist_count >= 3
        three == SelectSeqFrom(unique_songs, Three, 1)
        Described(song) ==
            /\ song.context # ""
            /\ \E k \in 1..Len(SplitOn(Lower(song.context), ", ")) :
                    Contains(q_lower, SplitOn(Lower(song.context), ", ")[k])
        described == SelectSeqFrom(unique_songs, Described, 1)
        Out(header, songs, with_context) ==
            [lines |-> << header >> \o SongLines(songs, with_context), cited |-> songs]
    IN  IF Truthy(artist_filter)
        THEN Out("Songs featuring " \o artist_filter[1] \o ":\n",
                 Slice(unique_songs, ArtistModeCap), TRUE)
        ELSE IF AnyIn(q_lower, {"3 people", "three people", "three artist", "3 artist"})
        THEN (IF three # << >>
              THEN Out("Songs with 3 or more artists:\n", Slice(three, ThreeArtistCap), TRUE)
              ELSE Out("No songs with 3 artists found.\n", Slice(unique_songs, FallbackCap), FALSE))
        ELSE IF AnyIn(q_lower, {"piano", "guitar", "rain", "danc", "beach", "night"})
        THEN (IF described # << >>
              THEN Out("Songs matching your description:\n", Slice(described, DescriptionCap), TRUE)
              ELSE Out("Based on your description:\n", Slice(unique_songs, DescriptionCap), TRUE))
        ELSE Out("Here are the songs from your history:\n", Slice(unique_songs, DefaultModeCap), TRUE)

\* the dict appended to by_category[category] for the candidate at position i
CategoryItem(meta, i) == [title |-> meta.title, domain |-> meta.domain, citation |-> i]

\* by_category[category] with citations numbered within the category
CategoryItemsRenumbered(metas, category) ==
    LET idx == [k \in 1..Len(metas) |-> k]
        In(k) == metas[k].content_category = category
        at == SelectSeqFrom(idx, In, 1)
    IN  [j \in 1..Len(at) |-> CategoryItem(metas[at[j]], j)]

\* by_category[category]: the items of one category, in candidate order
CategoryItems(metas, category) ==
    LET idx == [k \in 1..Len(metas) |-> k]
        In(k) == metas[k].content_category = category
        at == SelectSeqFrom(idx, In, 1)
    IN  [j \in 1..Len(at) |-> CategoryItem(metas[at[j]], at[j])]

ItemLine(item) ==
    "* " \o item.title \o " (" \o item.domain \o ") [#" \o IntToStr(item.citation) \o "]"

RECURSIVE CategoryBlocks(_, _, _)
\* the loop over sorted(by_category.items())
CategoryBlocks(metas, cats, many) ==
    IF cats = << >> THEN [lines |-> << >>, cited |-> << >>]
    ELSE LET items == Slice(CategoryItems(metas, cats[1]), CategoryCap)
             rest == CategoryBlocks(metas, Tail(cats), many)
         IN  [lines |-> (IF many THEN << "\n**" \o cats[1] \o ":**" >> ELSE << >>)
                            \o [k \in 1..Len(items) |-> ItemLine(items[k])] \o rest.lines,
              cited |-> items \o rest.cited]

\* the general branch: [lines, cited]
GeneralAnswer(metas, exclude_music) ==
    LET cats == {metas[k].content_category : k \in 1..Len(metas)}
        body == CategoryBlocks(metas, SortedStrs(cats), Cardinality(cats) > 1)
    IN  [lines |-> << IF exclude_music THEN "Here's your non-music browsing activity:\n"
                      ELSE "Here's what I found:\n" >> \o body.lines,
         cited |-> body.cited]

\* answer_lines of a non-empty result
Compose(metas, q_lower, artist_filter, is_music_query, exclude_music) ==
    IF is_music_query THEN MusicAnswer(metas, q_lower, artist_filter)
    ELSE GeneralAnswer(metas, exclude_music)

----------------------------------------------------------------------------
(* Categorizer and text normalizer.  A HistoryItem is a record; its        *)
(* lastVisitTime is carried as the local calendar day `visit` that         *)
(* datetime.fromtimestamp gives, its extracted_content as a function from  *)
(* the populated keys to their values (the empty function when absent).    *)

\* get_time_period with each boundary hour left in the earlier period
get_time_period_late(hour) ==
    IF 5 < hour /\ hour <= 12 THEN "Morning"
    ELSE IF 12 < hour /\ hour <= 17 THEN "Afternoon"
    ELSE IF 17 < hour /\ hour <= 22 THEN "Evening"
    ELSE "Night"

\* get_time_period(hour)
get_time_period(hour) ==
    IF 5 <= hour /\ hour < 12 THEN "Morning"
    ELSE IF 12 <= hour /\ hour < 17 THEN "Afternoon"
    ELSE IF 17 <= hour /\ hour < 22 THEN "Evening"
    ELSE "Night"

\* categorize_url with the 'aws' test moved to the head of the cascade
categorize_url_aws_first(url, title) ==
    LET u == Lower(url)
    IN  IF Contains(u, "aws") THEN "Cloud Services"
        ELSE IF Contains(u, "leetcode.com") THEN "Programming Practice"
        ELSE IF Contains(u, "github.com") THEN "Code Repository"
        ELSE IF Contains(u, "chatgpt.com") \/ Contains(u, "claude.ai") \/ Contains(u, "perplexity.ai")
        THEN "AI Assistant"
        ELSE IF Contains(u, "docs.google.com") THEN "Documentation"
        ELSE IF Contains(u, "x.com") \/ Contains(u, "twitter.com") THEN "Social Media"
        ELSE IF Contains(u, "cricbuzz.com") THEN "Sports News"
        ELSE IF Contains(u, "youtube.com") \/ Contains(u, "music.youtube.com") THEN "Media"
        ELSE IF Contains(u, "spotify.com") THEN "Music Streaming"
        ELSE "General"

\* categorize_url(url, title)
categorize_url(url, title) ==
    LET u == Lower(url)
    IN  IF Contains(u, "leetcode.com") THEN "Programming Practice"
        ELSE IF Contains(u, "github.com") THEN "Code Repository"
        ELSE IF Contains(u, "chatgpt.com") \/ Contains(u, "claude.ai") \/ Contains(u, "perplexity.ai")
        THEN "AI Assistant"
        ELSE IF Contains(u, "docs.google.com") THEN "Documentation"
        ELSE IF Contains(u, "aws") THEN "Cloud Services"
        ELSE IF Contains(u, "x.com") \/ Contains(u, "twitter.com") THEN "Social Media"
        ELSE IF Contains(u, "cricbuzz.com") THEN "Sports News"
        ELSE IF Contains(u, "youtube.com") \/ Contains(u, "music.youtube.com") THEN "Media"
        ELSE IF Contains(u, "spotify.com") THEN "Music Streaming"
        ELSE "General"

\* content.get(key), "" standing for a missing (or empty) value
Get(content, key) == IF key \in DOMAIN content THEN content[key] ELSE ""

\* the conditionally appended lines of create_rich_text, in their order
ContentLines ==
    << [key |-> "video_title", label |-> "Video Title: "],
       [key |-> "channel", label |-> "Channel/Artist: "],
       [key |-> "parsed_artist", label |-> "Artist: "],
       [key |-> "parsed_song", label |-> "Song: "],
       [key |-> "video_type", label |-> "Video Type: "],
       [key |-> "collaboration", label |-> "Collaboration: "],
       [key |-> "description", label |-> "Description: "],
       [key |-> "contextual_keywords", label |-> "Context: "],
       [key |-> "track_name", label |-> "Song/Track: "],
       [key |-> "artist", label |-> "Artist: "],
       [key |-> "album", label |-> "Album: "],
       [key |-> "release_year", label |-> "Year: "] >>

DescriptionLimit == 800

\* the line create_rich_text appends for one key of extracted_content
ContentLine(content, line) ==
    IF Get(content, line.key) = "" THEN ""
    ELSE "\n" \o line.label
         \o (IF line.key = "collaboration" THEN "Yes"
             ELSE IF line.key = "description"
             THEN SubSeq(content[line.key], 1, Min(Len(content[line.key]), DescriptionLimit))
             ELSE content[line.key])

RECURSIVE ContentText(_, _)
ContentText(content, k) ==
    IF k > Len(ContentLines) THEN ""
    ELSE ContentLine(content, ContentLines[k]) \o ContentText(content, k + 1)

\* create_rich_text(it)
create_rich_text(it) ==
    Strip("Title: " \o it.title
          \o "\nURL: " \o it.url
          \o "\nDomain: " \o it.domain
          \o "\nVisit Date: " \o MonthNames[it.visit.m] \o " " \o ZFill(IntToStr(it.visit.d), 2)
              \o ", " \o ZFill(IntToStr(it.visit.y), 4)
          \o "\nDate: " \o FormatYMD(it.visit)
          \o "\nDay: " \o WeekdayName(it.visit)
          \o "\nTime: " \o IntToStr(it.hour) \o ":00"
          \o "\nTime Period: " \o get_time_period(it.hour)
          \o "\nContent Type: " \o categorize_url(it.url, it.title)
          \o ContentText(it.extracted_content, 1))

\* the meta dict the ingestion handlers build for one item
MetaOf(it) ==
    [title |-> it.title, id |-> it.id, url |-> it.url, domain |-> it.domain,
     dayOfWeek |-> it.dayOfWeek, hour |-> it.hour,
     visit_date |-> FormatYMD(it.visit),
     day_name |-> WeekdayName(it.visit),
     time_period |-> get_time_period(it.hour),
     content_category |-> categorize_url(it.url, it.title),
     contextual_keywords |-> Get(it.extracted_content, "contextual_keywords"),
     video_type |-> Get(it.extracted_content, "video_type")]

\* create_rich_text and the meta dict over the records the model works on
\* (evaluated once)
RichTextOf == [it \in KnownItems |-> create_rich_text(it)]

MetaTable == [it \in KnownItems |-> MetaOf(it)]

RichText(it) == IF it \in KnownItems THEN RichTextOf[it] ELSE create_rich_text(it)

Meta(it) == IF it \in KnownItems THEN MetaTable[it] ELSE MetaOf(it)

----------------------------------------------------------------------------
(* The vector store.  A collection is a set of entries [id, document,      *)
(* metadata] with distinct ids (the embedding, an opaque vector, is left   *)
(* out); a user's collection is [exists, docs].                            *)

NoCollection == [exists |-> FALSE, docs |-> {}]

EmptyCollection == [exists |-> TRUE, docs |-> {}]

\* col_history / col_memory: get_collection, or create_collection when it raises
GetOrCreate(col) == IF col.exists THEN col ELSE EmptyCollection

Ids(docs) == {e.id : e \in docs}

\* collection.query(query_embeddings, n_results): the entries ranked by an
\* opaque similarity, so in any order, cut to n_results
QueryResults(col, n_results) ==
    {Slice([k \in 1..Cardinality(col.docs) |-> o[k].metadata], n_results) : o \in Orders(col.docs)}

ChunkSize == 500

ChunkOverlap == 50

RECURSIVE SplitText(_)
\* RecursiveCharacterTextSplitter(chunk_size, chunk_overlap).split_text, as
\* windows of chunk_size characters that overlap by chunk_overlap; a text of at
\* most chunk_size characters is one chunk
SplitText(text) ==
    IF Len(text) <= ChunkSize THEN << text >>
    ELSE << SubSeq(text, 1, ChunkSize) >>
            \o SplitText(SubSeq(text, ChunkSize - ChunkOverlap + 1, Len(text)))

RECURSIVE RebuildChunks(_, _)
\* chunks of rebuild_embeddings: every chunk of every item, with the item's meta
RebuildChunks(items, k) ==
    IF k > Len(items) THEN << >>
    ELSE LET texts == SplitText(RichText(items[k]))
         IN  [j \in 1..Len(texts) |-> [document |-> texts[j], metadata |-> Meta(items[k])]]
                \o RebuildChunks(items, k + 1)

\* the collection rebuild_embeddings leaves: chunk i under id doc_i
RebuildCollection(items) ==
    LET chunks == RebuildChunks(items, 1)
    IN  [exists |-> TRUE,
         docs |-> {[id |-> "doc_" \o IntToStr(k - 1),
                    document |-> chunks[k].document,
                    metadata |-> chunks[k].metadata] : k \in 1..Len(chunks)}]

----------------------------------------------------------------------------
(* State                                                                   *)

VARIABLES
    api_key,    \* whether OPENAI_API_KEY is set (read once, at import)
    hist,       \* the user's browser_history collection
    calls,      \* the provider calls made so far (embedding and completion)
    pc,         \* where the handler being served stands
    req,        \* the request being served
    now,        \* datetime.now() of the request being served
    interp,     \* what chat_structured extracted from the question
    run,        \* the lists chat_structured went through
    response,   \* the handler's response, or the exception it raised
    op,         \* the handler being served
    batch,      \* the items of the HistoryBatch being served
    summary,    \* the completion distill_and_store_memory holds
    mem,        \* the user's chat_memory collection
    clock,      \* datetime.utcnow(), in whole seconds
    ignores_existing,   \* whether the store's add skips an id it already holds
                        \* (it raises otherwise); fixed by the store's version
    submitted,  \* stable id -> the record last submitted under it by a
                \* successful upsert_items
    served,     \* the requests served so far
    call,       \* the helper called directly, with its arguments
    result      \* what the helper returned

vars ==
    << api_key, hist, calls, pc, req, now, interp, run, response,
       op, batch, summary, mem, clock, ignores_existing, submitted, served,
       call, result >>

\* the variables chat_structured leaves alone
ingest_vars ==
    << batch, summary, mem, clock, ignores_existing, submitted, call, result >>

----------------------------------------------------------------------------
(* Inputs                                                                  *)

\* the questions asked
Questions ==
    { "What songs did I listen to",
      "songs by taylor",
      "Taylor Swift songs",
      "taylor swift songs except youtube",
      "what did I browse apart from songs",
      "youtube activity yesterday",
      "github in october",
      "spotify yesterday",
      "show my history",
      "songs with 3 people",
      "songs in the rain" }

MaxItems == 2

MaxTopK == 1

DefaultTopK == 20

TopKs == (0..MaxTopK) \union {DefaultTopK}

Days == { [y |-> 2026, m |-> 11, d |-> 5] }

\* the batches of at most MaxItems distinct catalog records, in catalog order
Batches ==
    LET Idx == UNION {[1..n -> 1..Len(Catalog)] : n \in 0..MaxItems}
        Sorted == {f \in Idx : \A a, b \in DOMAIN f : a < b => f[a] < f[b]}
    IN  {[k \in DOMAIN f |-> Catalog[f[k]]] : f \in Sorted}

----------------------------------------------------------------------------
(* chat_structured                                                         *)

Http500(detail) == [status |-> 500, detail |-> detail]

\* ChatResponse(success=True, answer=..., sources=...)
ChatResponse(answer, sources) ==
    [status |-> 200, success |-> TRUE, answer |-> answer, sources |-> sources]

\* ensure_api_key() raises this HTTPException; str() of it is "500: " + detail
KeyError == "OPENAI_API_KEY not set"

NoRequest == [message |-> "", top_k |-> 0]

NoInterp ==
    [date_filter |-> None, domain_filter |-> None, exclude_music |-> FALSE,
     exclude_youtube |-> FALSE, is_music_query |-> FALSE, enhanced |-> ""]

NoRun ==
    [raw |-> << >>, filtered |-> << >>, artist_filter |-> None, survivors |-> << >>,
     final |-> << >>, lines |-> << >>, cited |-> << >>]

NoResponse == [status |-> 0]

NoSubmissions == [id \in {} |-> NoRequest]

\* lines 447-494: the filters and the query text of a question
Interpret(message, today) ==
    LET q_lower == Lower(message)
        date_filter == extract_date(message, today)
    IN  [date_filter |-> date_filter,
         domain_filter |-> extract_domain(message),
         exclude_music |-> ExcludeMusic(q_lower),
         exclude_youtube |-> ExcludeYoutube(q_lower),
         is_music_query |-> IsMusicQuery(q_lower),
         enhanced |-> Enhanced(message, date_filter)]

\* Interpret over the model's questions and days (evaluated once)
InterpretOf == [message \in Questions |-> [today \in Days |-> Interpret(message, today)]]

\* n_results of hist.query
NResults(top_k) == Min(top_k * 5, 200)

\* lines 508-584 and the answer lines: what chat_structured makes of the raw
\* candidates; order is the iteration order of all_artists
Pipeline(raw, message, top_k, in, order) ==
    LET filtered == StructuredFilter(raw, in.date_filter, in.domain_filter)
        artist_filter == IF in.is_music_query
                         THEN extract_artist_from_query(message, Titles(filtered), order)
                         ELSE None
        survivors == ExclusionPass(filtered, artist_filter, in.is_music_query,
                                   in.exclude_music, in.exclude_youtube)
        final == Truncate(survivors, top_k)
        out == IF final = << >> THEN [lines |-> << >>, cited |-> << >>]
               ELSE Compose(final, Lower(message), artist_filter, in.is_music_query,
                            in.exclude_music)
    IN  [raw |-> raw, filtered |-> filtered, artist_filter |-> artist_filter,
         survivors |-> survivors, final |-> final, lines |-> out.lines, cited |-> out.cited]

\* the response chat_structured returns for a run
Respond(r, in) ==
    IF r.raw = << >> THEN ChatResponse("No matching history found.", << >>)
    ELSE IF r.final = << >>
    THEN ChatResponse(EmptyAnswer(r.artist_filter, in.date_filter, in.domain_filter), << >>)
    ELSE ChatResponse(Join(r.lines, "\n"), mk_sources(r.final))

\* the orders in which the run may iterate all_artists; the set is built only
\* for a music question
ArtistOrders(raw, in) ==
    IF in.is_music_query
    THEN Orders(AllArtists(Titles(StructuredFilter(raw, in.date_filter, in.domain_filter))))
    ELSE {<< >>}

\* chat_structured up to its await of embed_query
ChatStart(Msgs, Ks) ==
    /\ pc = "idle"
    /\ \E message \in Msgs, top_k \in Ks, today \in Days :
        /\ req' = [message |-> message, top_k |-> top_k]
        /\ now' = today
        /\ IF ~api_key
           THEN /\ response' = Http500("Chat failed: 500: " \o KeyError)
                /\ pc' = "failed"
                /\ UNCHANGED << hist, calls, interp >>
           ELSE /\ hist' = GetOrCreate(hist)
                /\ interp' = InterpretOf[message][today]
                /\ calls' = calls + 1
                /\ pc' = "chat_embedding"
                /\ UNCHANGED response
    /\ op' = "chat"
    /\ UNCHANGED << api_key, run, ingest_vars, served >>

\* chat_structured from the result of embed_query to its response
ChatFinish ==
    /\ pc = "chat_embedding"
    /\ \/ /\ response' = Http500("Chat failed: embedding provider error")
          /\ pc' = "failed"
          /\ UNCHANGED run
       \/ /\ NResults(req.top_k) <= 0
          /\ response' = Http500("Chat failed: n_results must be positive")
          /\ pc' = "failed"
          /\ UNCHANGED run
       \/ /\ NResults(req.top_k) > 0
          /\ \E raw \in QueryResults(hist, NResults(req.top_k)) :
             \E order \in ArtistOrders(raw, interp) :
                /\ run' = Pipeline(raw, req.message, req.top_k, interp, order)
                /\ response' = Respond(run', interp)
          /\ pc' = "done"
    /\ UNCHANGED << api_key, hist, calls, req, now, interp, op, ingest_vars, served >>

\* no request has been served yet
NoCall == [fn |-> "none"]

NoResult == [returned |-> FALSE]

Quiescent ==
    /\ calls = 0
    /\ pc = "idle"
    /\ op = "none"
    /\ req = NoRequest
    /\ now = CHOOSE d \in Days : TRUE
    /\ interp = NoInterp
    /\ run = NoRun
    /\ response = NoResponse
    /\ batch = << >>
    /\ summary = ""
    /\ mem = NoCollection
    /\ clock = 0
    /\ submitted = NoSubmissions
    /\ served = 0

Idle ==
    /\ Quiescent
    /\ call = NoCall
    /\ result = NoResult

Init ==
    /\ api_key \in BOOLEAN
    /\ hist \in {RebuildCollection(b) : b \in Batches} \union {NoCollection}
    /\ ignores_existing = TRUE
    /\ Idle

Next ==
    \/ ChatStart(Questions, TopKs)
    \/ ChatFinish

Spec == Init /\ [][Next]_vars

----------------------------------------------------------------------------
(* The ingestion handlers and the memory distiller.  One request is served *)
(* at a time; a handler that awaits a provider call is two steps, one up   *)
(* to the await and one from its result.                                   *)

\* an exception that is no HTTPException, raised to the caller
Raised(error) == [status |-> 0, exception |-> error]

\* OpenAIEmbeddings(...) without a credential raises this in the versions of
\* the library that validate the credential at construction
ClientError == "embedding client: no credential"

ProviderError == "provider error"

CharsOf(s) == {Char(s, k) : k \in 1..Len(s)}

\* abs(hash(url)): one process's str hash, injective on the URLs of the model
UrlHash(url) ==
    LET urls == SortedStrs({it.url : it \in KnownItems})
    IN  IF url \in Range(urls) THEN CHOOSE k \in 1..Len(urls) : urls[k] = url ELSE 0

StableIdModulus == 1000000000

\* stable_doc_id(item)
stable_doc_id(item) ==
    "hist:" \o item.domain \o ":" \o FormatYMD(item.visit) \o ":"
        \o IntToStr(UrlHash(item.url) % StableIdModulus)

\* stable_doc_id over the records the model works on (evaluated once)
StableIdOf == [it \in KnownItems |-> stable_doc_id(it)]

StableId(it) == IF it \in KnownItems THEN StableIdOf[it] ELSE stable_doc_id(it)

\* ids, texts and metas of upsert_items, as one sequence of entries
UpsertEntries(items) ==
    [k \in 1..Len(items) |->
        [id |-> StableId(items[k]), document |-> RichText(items[k]),
         metadata |-> Meta(items[k])]]

\* the try block of upsert_items: col.get(ids=ids) returns its "ids" as a flat
\* list, so (existing.get("ids") or [])[0] is the first id found, a str, and
\* existing_ids is the set of its characters; with no id found the index
\* raises and the block is left.  The result is the set of entries the block
\* may leave, one for each id get may return first.
UpsertDelete(docs, ids) ==
    LET found == Ids(docs) \intersect Range(ids)
        Without(existing_ids) == {e \in docs : e.id \notin existing_ids}
    IN  IF found = {} THEN {docs}
        ELSE {Without(CharsOf(first)) : first \in found}

\* collection.add(ids, ...): duplicate ids in one call raise; an id the
\* collection already holds is skipped or raises, by the store's version
StoreAdd(docs, entries, ignores) ==
    LET ids == [k \in 1..Len(entries) |-> entries[k].id]
        fresh == {e \in Range(entries) : e.id \notin Ids(docs)}
    IN  IF Cardinality(Range(ids)) < Len(ids) THEN [ok |-> FALSE, docs |-> docs]
        ELSE IF Range(ids) \intersect Ids(docs) # {} /\ ~ignores
        THEN [ok |-> FALSE, docs |-> docs]
        ELSE [ok |-> TRUE, docs |-> docs \union fresh]

\* the records an ingestion request may carry
IngestPool == << Catalog[1], Revisited, Catalog[5] >>

MaxBatch == 2

IngestBatches ==
    LET Idx == UNION {[1..n -> 1..Len(IngestPool)] : n \in 0..MaxBatch}
    IN  {[k \in DOMAIN f |-> IngestPool[f[k]]] : f \in Idx}

MaxRequests == 3

MaxClock == 1

\* what a chat completion may return
Summaries == {"NONE", " none needed", "", "Prefers Taylor Swift."}

\* the variables of chat_structured alone
chat_vars == << req, now, interp, run >>

\* upsert_items up to its await of embed_documents
UpsertStart ==
    /\ pc = "idle"
    /\ op' = "upsert"
    /\ \E items \in IngestBatches :
        /\ batch' = items
        /\ \/ /\ items = << >>
              /\ response' = [status |-> 200, ok |-> TRUE, upserted |-> 0]
              /\ pc' = "done"
              /\ UNCHANGED << hist, calls >>
           \/ /\ items # << >>
              /\ ~api_key
              /\ response' = Http500("Upsert failed: " \o ClientError)
              /\ pc' = "failed"
              /\ UNCHANGED << hist, calls >>
           \/ /\ items # << >>
              /\ \E docs \in UpsertDelete(GetOrCreate(hist).docs,
                                          [k \in 1..Len(items) |-> StableId(items[k])]) :
                    hist' = [exists |-> TRUE, docs |-> docs]
              /\ calls' = calls + 1
              /\ pc' = "upsert_embedding"
              /\ UNCHANGED response
    /\ UNCHANGED << api_key, call, result, chat_vars, summary, mem, clock, ignores_existing, submitted, served >>

\* submitted without the ids of a call that failed after its delete step
Unsettled(sub, entries) ==
    [id \in DOMAIN sub \ {entries[k].id : k \in 1..Len(entries)} |-> sub[id]]

\* upsert_items from the result of embed_documents to its response
UpsertFinish ==
    /\ pc = "upsert_embedding"
    /\ \/ /\ response' = Http500("Upsert failed: " \o ProviderError)
          /\ pc' = "failed"
          /\ submitted' = Unsettled(submitted, UpsertEntries(batch))
          /\ UNCHANGED hist
       \/ /\ api_key
          /\ LET entries == UpsertEntries(batch)
                 added == StoreAdd(hist.docs, entries, ignores_existing)
             IN  IF added.ok
                 THEN /\ hist' = [hist EXCEPT !.docs = added.docs]
                      /\ submitted' =
                            [id \in DOMAIN submitted \union {entries[k].id : k \in 1..Len(entries)} |->
                                IF \E k \in 1..Len(entries) : entries[k].id = id
                                THEN batch[CHOOSE k \in 1..Len(entries) : entries[k].id = id]
                                ELSE submitted[id]]
                      /\ response' = [status |-> 200, ok |-> TRUE, upserted |-> Len(entries)]
                      /\ pc' = "done"
                 ELSE /\ response' = Http500("Upsert failed: store error")
                      /\ pc' = "failed"
                      /\ submitted' = Unsettled(submitted, entries)
                      /\ UNCHANGED hist
    /\ UNCHANGED << api_key, call, result, calls, chat_vars, op, batch, summary, mem, clock,
                    ignores_existing, served >>

\* rebuild_embeddings up to its await of embed_documents
RebuildStart ==
    /\ pc = "idle"
    /\ op' = "rebuild"
    /\ \E items \in IngestBatches :
        /\ batch' = items
        /\ \/ /\ items = << >>
              /\ response' = [status |-> 400, detail |-> "No items"]
              /\ pc' = "failed"
              /\ UNCHANGED calls
           \/ /\ items # << >>
              /\ ~api_key
              /\ response' = Http500("Failed to build embeddings: " \o ClientError)
              /\ pc' = "failed"
              /\ UNCHANGED calls
           \/ /\ items # << >>
              /\ calls' = calls + 1
              /\ pc' = "rebuild_embedding"
              /\ UNCHANGED response
    /\ UNCHANGED << api_key, call, result, hist, chat_vars, summary, mem, clock, ignores_existing,
                    submitted, served >>

\* rebuild_embeddings from the result of embed_documents to its response
RebuildFinish ==
    /\ pc = "rebuild_embedding"
    /\ \/ /\ response' = Http500("Failed to build embeddings: " \o ProviderError)
          /\ pc' = "failed"
          /\ UNCHANGED << hist, submitted >>
       \/ /\ api_key
          /\ hist' = RebuildCollection(batch)
          /\ submitted' = NoSubmissions
          /\ response' = [status |-> 200, success |-> TRUE, total_items |-> Len(batch),
                          chunks_created |-> Cardinality(hist'.docs), message |-> "ok"]
          /\ pc' = "done"
    /\ UNCHANGED << api_key, call, result, calls, chat_vars, op, batch, summary, mem, clock,
                    ignores_existing, served >>

\* distill_and_store_memory up to the await inside chat_complete; whatever
\* chat_complete raises is caught and the function returns
DistillStart ==
    /\ pc = "idle"
    /\ op' = "distill"
    /\ IF ~api_key
       THEN /\ pc' = "done"
            /\ UNCHANGED calls
       ELSE /\ calls' = calls + 1
            /\ pc' = "distill_completion"
    /\ UNCHANGED << api_key, call, result, hist, chat_vars, response, batch, summary, mem, clock,
                    ignores_existing, submitted, served >>

\* "if not summary or summary.strip().upper().startswith('NONE')"
NothingDurable(text) == text = "" \/ StartsWith(Upper(Strip(text)), "NONE")

\* distill_and_store_memory from the result of chat_complete to its await of
\* embed_documents
DistillCompletion ==
    /\ pc = "distill_completion"
    /\ \/ /\ pc' = "done"
          /\ UNCHANGED << calls, summary >>
       \/ \E text \in Summaries :
            /\ summary' = text
            /\ IF NothingDurable(text)
               THEN /\ pc' = "done"
                    /\ UNCHANGED calls
               ELSE /\ calls' = calls + 1
                    /\ pc' = "distill_embedding"
    /\ UNCHANGED << api_key, call, result, hist, chat_vars, response, op, batch, mem, clock,
                    ignores_existing, submitted, served >>

\* the entry distill_and_store_memory adds
MemoryEntry(text, utcnow) ==
    [id |-> "mem:" \o IntToStr(utcnow), document |-> text,
     metadata |-> [user_id |-> "local_user", ts |-> utcnow]]

\* distill_and_store_memory from the result of embed_documents to its end;
\* nothing here is inside a try
DistillStore ==
    /\ pc = "distill_embedding"
    /\ \/ /\ response' = Raised(ProviderError)
          /\ pc' = "failed"
          /\ UNCHANGED mem
       \/ LET added == StoreAdd(GetOrCreate(mem).docs,
                                << MemoryEntry(summary, clock) >>, ignores_existing)
          IN  /\ mem' = [exists |-> TRUE, docs |-> added.docs]
              /\ IF added.ok
                 THEN pc' = "done" /\ UNCHANGED response
                 ELSE pc' = "failed" /\ response' = Raised("store error")
    /\ UNCHANGED << api_key, call, result, hist, calls, chat_vars, op, batch, summary, clock,
                    ignores_existing, submitted, served >>

\* the handler has ended; the next request arrives, now or a second later
NextRequest ==
    /\ pc \in {"done", "failed"}
    /\ served < MaxRequests
    /\ served' = served + 1
    /\ pc' = "idle"
    /\ op' = "none"
    /\ req' = NoRequest
    /\ interp' = NoInterp
    /\ run' = NoRun
    /\ response' = NoResponse
    /\ batch' = << >>
    /\ summary' = ""
    /\ clock' \in {clock, Min(clock + 1, MaxClock)}
    /\ UNCHANGED << api_key, call, result, hist, calls, now, mem, ignores_existing, submitted >>

IngestQuestions == {"show my history"}

IngestTopKs == {1}

InitIngest ==
    /\ api_key \in BOOLEAN
    /\ hist = NoCollection
    /\ ignores_existing \in BOOLEAN
    /\ Idle

NextIngest ==
    \/ UpsertStart
    \/ UpsertFinish
    \/ RebuildStart
    \/ RebuildFinish
    \/ DistillStart
    \/ DistillCompletion
    \/ DistillStore
    \/ ChatStart(IngestQuestions, IngestTopKs)
    \/ ChatFinish
    \/ NextRequest

SpecIngest == InitIngest /\ [][NextIngest]_vars

----------------------------------------------------------------------------
(* The helpers called on their own.  create_rich_text, rebuild_embeddings  *)
(* and upsert_items call get_time_period and categorize_url once per item  *)
(* with the item's hour, url and title; chat_structured calls              *)
(* extract_artist_from_query once per music question.  One call is drawn   *)
(* at the start and the helper it names returns its value.                 *)

\* pieces URLs are put together from, in the spellings a browser reports
UrlParts ==
    << "https://", "LeetCode.com", "GitHub.com", "chatgpt.com", "claude.ai",
       "perplexity.ai", "docs.google.com", "/AWS", "/laws", "x.com",
       "netflix.com", "twitter.com", "cricbuzz.com", "youtube.com",
       "music.youtube.com", "spotify.com", "example.org" >>

MaxUrlParts == 2

Urls ==
    {Join(parts, "") :
        parts \in UNION {[1..n -> Range(UrlParts)] : n \in 0..MaxUrlParts}}

UrlTitles == {"", "aws console on github.com"}

\* HistoryItem.hour is any int; the hours of a day and one on either side
Hours == (-1)..24

CategorizeCalls ==
    {[fn |-> "categorize_url", url |-> u, title |-> t] : u \in Urls, t \in UrlTitles}

PeriodCalls == {[fn |-> "get_time_period", hour |-> h] : h \in Hours}

ArtistQuestions ==
    { "What songs did I listen to",
      "Taylor Swift songs",
      "songs by taylor momsen",
      "swifties playlist",
      "show my history" }

\* available_titles are the titles of the candidates left by the structured
\* filter; the set all_artists built from them is iterated in any order
ArtistCalls ==
    UNION {{[fn |-> "extract_artist_from_query", query |-> q,
             available_titles |-> Titles(b), order |-> o] :
                o \in Orders(AllArtists(Titles(b)))} :
           q \in ArtistQuestions, b \in Batches}

HelperCalls == CategorizeCalls \union PeriodCalls \union ArtistCalls

Returned(value) == [returned |-> TRUE, value |-> value]

helper_vars ==
    << api_key, hist, calls, pc, req, now, interp, run, response, op, batch,
       summary, mem, clock, ignores_existing, submitted, served, call >>

CallCategorizeUrl ==
    /\ call.fn = "categorize_url"
    /\ ~result.returned
    /\ result' = Returned(categorize_url(call.url, call.title))
    /\ UNCHANGED helper_vars

CallGetTimePeriod ==
    /\ call.fn = "get_time_period"
    /\ ~result.returned
    /\ result' = Returned(get_time_period(call.hour))
    /\ UNCHANGED helper_vars

CallExtractArtist ==
    /\ call.fn = "extract_artist_from_query"
    /\ ~result.returned
    /\ result' = Returned(extract_artist_from_query(call.query, call.available_titles,
                                                    call.order))
    /\ UNCHANGED helper_vars

InitHelpers ==
    /\ api_key = FALSE
    /\ hist = NoCollection
    /\ ignores_existing = TRUE
    /\ Quiescent
    /\ call \in HelperCalls
    /\ result = NoResult

NextHelpers ==
    \/ CallCategorizeUrl
    \/ CallGetTimePeriod
    \/ CallExtractArtist

SpecHelpers == InitHelpers /\ [][NextHelpers]_vars

----------------------------------------------------------------------------
(* Properties of chat_structured                                           *)

\* C1: exclude-music and music-intent are never both true; when an exclusion
\* phrase occurs in the lower-cased question music-intent is false, whatever
\* trigger words occur with it.
C1_ExclusionSuppressesMusicIntent ==
    pc \in {"chat_embedding", "done"} =>
        /\ ~(interp.exclude_music /\ interp.is_music_query)
        /\ AnyIn(Lower(req.message), ExclusionPhrases) => ~interp.is_music_query

\* a question with an exclusion phrase and a trigger word has been interpreted
C1_Witness ==
    /\ pc = "done"
    /\ AnyIn(Lower(req.message), ExclusionPhrases)
    /\ AnyIn(Lower(req.message), {"song", "music"})
    /\ interp.exclude_music /\ ~interp.is_music_query

\* the survival condition of the structured filter pass, as the claim words it
C2_Survives(meta) ==
    /\ \/ interp.date_filter = None
       \/ /\ Len(interp.date_filter[1]) = 7
          /\ SubSeq(meta.visit_date, 1, 7) = interp.date_filter[1]
       \/ /\ Len(interp.date_filter[1]) = 10
          /\ meta.visit_date = interp.date_filter[1]
    /\ \/ interp.domain_filter = None
       \/ meta.domain = interp.domain_filter[1]

\* C2: a raw candidate survives the structured filter pass iff its visit_date
\* matches the extracted date (prefix for YYYY-MM, equality for YYYY-MM-DD) or
\* no date was extracted, and its domain equals the extracted domain or none
\* was extracted; with neither extracted the pass drops nothing.
C2_StructuredFilterExact ==
    pc = "done" =>
        /\ run.filtered = SelectSeq(run.raw, C2_Survives)
        /\ (interp.date_filter = None /\ interp.domain_filter = None) => run.filtered = run.raw

\* a month-granularity date has kept one candidate and dropped another
C2_Witness ==
    /\ pc = "done"
    /\ interp.date_filter # None /\ Len(interp.date_filter[1]) = 7
    /\ interp.domain_filter # None
    /\ run.filtered # << >>
    /\ Len(run.filtered) < Len(run.raw)

\* a candidate passes every filter pass of the run
C3_Passes(meta) ==
    /\ StructuredMatch(meta, interp.date_filter, interp.domain_filter)
    /\ ~ShouldExclude(meta, run.artist_filter, interp.is_music_query,
                      interp.exclude_music, interp.exclude_youtube)

\* C3: for top_k >= 1 the list answered from, and returned as sources, is the
\* first top_k of the candidates that passed every filter, in raw order.
C3_FirstTopKSurvivors ==
    (pc = "done" /\ req.top_k >= 1 /\ run.raw # << >>) =>
        LET passed == SelectSeq(run.raw, C3_Passes)
        IN  /\ Len(run.final) <= req.top_k
            /\ Len(run.final) = Min(req.top_k, Len(passed))
            /\ run.final = SubSeq(passed, 1, Len(run.final))
            /\ Len(response.sources) = Len(run.final)
            /\ \A k \in 1..Len(run.final) :
                    /\ response.sources[k].url = run.final[k].url
                    /\ response.sources[k].title = run.final[k].title

\* more candidates survived than top_k allows
C3_Witness ==
    /\ pc = "done"
    /\ req.top_k >= 1
    /\ Len(run.survivors) > req.top_k
    /\ Len(run.final) = req.top_k

\* the three conditions of the exclusion pass, as the claim words them
C4_Indicator(meta) == AnyIn(Lower(meta.title), MusicIndicators)

C4_YoutubeMusic(meta) == meta.domain \in YoutubeDomains /\ AnyIn(Lower(meta.title), MusicTerms)

C4_MusicCategory(meta) == meta.content_category \in {"Media", "Music Streaming"}

\* C4 as stated: with exclude-music active every candidate meeting any one of
\* the three conditions is dropped.
C4_AnyConditionDrops ==
    (pc = "done" /\ interp.exclude_music) =>
        \A k \in 1..Len(run.filtered) :
            (C4_Indicator(run.filtered[k]) \/ C4_YoutubeMusic(run.filtered[k])
                \/ C4_MusicCategory(run.filtered[k]))
            => run.filtered[k] \notin Range(run.survivors)

\* C4: with exclude-music active a candidate is dropped when its title has a
\* music-indicator phrase, or it is on a YouTube domain and its title has a
\* music-like token, or it is on no YouTube domain and its category is Media
\* or Music Streaming; a candidate on a YouTube domain with neither an
\* indicator nor a music-like token is kept whatever its category, unless the
\* YouTube exclusion drops it.
C4_ChainDrops ==
    (pc = "done" /\ interp.exclude_music) =>
        \A k \in 1..Len(run.filtered) :
            LET meta == run.filtered[k]
            IN  /\ (\/ C4_Indicator(meta)
                    \/ C4_YoutubeMusic(meta)
                    \/ meta.domain \notin YoutubeDomains /\ C4_MusicCategory(meta))
                   => meta \notin Range(run.survivors)
                /\ (/\ meta.domain \in YoutubeDomains
                    /\ ~C4_Indicator(meta) /\ ~C4_YoutubeMusic(meta)
                    /\ ~interp.exclude_youtube)
                   => meta \in Range(run.survivors)

\* exclude-music has dropped a Music Streaming candidate and kept a Media one
C4_Witness ==
    /\ pc = "done"
    /\ interp.exclude_music
    /\ \E k \in 1..Len(run.filtered) :
            /\ run.filtered[k].content_category = "Music Streaming"
            /\ run.filtered[k] \notin Range(run.survivors)
    /\ \E k \in 1..Len(run.survivors) : run.survivors[k].content_category = "Media"

\* the empty-result answers, as the claim words them
C5_ArtistAnswer == "No songs featuring " \o run.artist_filter[1] \o " found."

C5_DateDomainAnswer ==
    "No " \o interp.domain_filter[1] \o " activity found from " \o interp.date_filter[1] \o "."

C5_Priority(generic) ==
    IF Truthy(run.artist_filter) THEN response.answer = C5_ArtistAnswer
    ELSE IF interp.date_filter # None /\ interp.domain_filter # None
    THEN response.answer = C5_DateDomainAnswer
    ELSE response.answer \in generic

C5_EmptyResponse ==
    /\ response.status = 200
    /\ response.success
    /\ response.sources = << >>
    /\ run.lines = << >>

\* C5 as stated: whenever no candidate survives, the answer follows the
\* priority artist, date+domain, generic.
C5_PriorityAlways ==
    (pc = "done" /\ run.final = << >>) =>
        /\ C5_EmptyResponse
        /\ C5_Priority({"No matching results found.", "No matching history found."})

\* C5: when the raw candidate list is not empty and no candidate survives, the
\* response is a success with empty sources and no rendered body, its answer
\* chosen in the priority artist, date+domain, generic; when the raw list is
\* itself empty the answer is "No matching history found." whatever was
\* extracted.
C5_PriorityAfterRetrieval ==
    (pc = "done" /\ run.final = << >>) =>
        /\ C5_EmptyResponse
        /\ IF run.raw = << >> THEN response.answer = "No matching history found."
           ELSE C5_Priority({"No matching results found."})

\* nothing survived with an artist resolved, and elsewhere with a date and a
\* domain extracted
C5_Witness ==
    /\ pc = "done"
    /\ run.raw # << >>
    /\ run.final = << >>
    /\ Truthy(run.artist_filter)
    /\ response.answer = C5_ArtistAnswer

\* the number N a rendered line cites as [#N], 0 for a line without citation
CitationOf(line) ==
    LET at == {j \in 1..(Len(line) - 3) :
                    /\ StartsAt(line, "[#", j)
                    /\ \A k \in (j + 2)..(Len(line) - 1) : IsDigitAt(line, k)}
    IN  IF Len(line) > 3 /\ Char(line, Len(line)) = "]" /\ at # {}
        THEN StrToInt(SubSeq(line, Least(at) + 2, Len(line) - 1))
        ELSE 0

\* the lines of the answer that carry a citation, in order
CitingLines ==
    LET Cites(line) == CitationOf(line) > 0
    IN  SelectSeq(SplitOn(response.answer, "\n"), Cites)

\* C6: in a non-empty response each citation [#N] is the 1-based position of
\* the line's candidate in the final list, so 1 <= N <= len(sources) and
\* sources[N-1] is that candidate's source, in the music branch and in the
\* general branch alike.
C6_CitationIsFinalPosition ==
    (pc = "done" /\ run.final # << >>) =>
        /\ Len(CitingLines) = Len(run.cited)
        /\ \A k \in 1..Len(run.cited) :
            LET n == CitationOf(CitingLines[k])
                entry == run.cited[k]
            IN  /\ n = entry.citation
                /\ 1 <= n /\ n <= Len(response.sources)
                /\ response.sources[n].url = run.final[n].url
                /\ Contains(CitingLines[k], IF interp.is_music_query THEN entry.song ELSE entry.title)
                /\ IF interp.is_music_query
                   THEN entry.title = StripNumPrefix(run.final[n].title)
                   ELSE /\ entry.title = run.final[n].title
                        /\ entry.domain = run.final[n].domain

\* a line cites a candidate whose position in the final list differs from the
\* line's own rank among the rendered lines
C6_Witness ==
    /\ pc = "done"
    /\ run.final # << >>
    /\ \E k \in 1..Len(run.cited) :
            /\ run.cited[k].citation # k
            /\ CitationOf(CitingLines[k]) = run.cited[k].citation

\* the candidate artists that are substrings of the lower-cased question
C7_SubstringArtists ==
    {a \in AllArtists(Titles(run.filtered)) : Contains(Lower(req.message), Lower(a))}

\* C7: outside the documented case of two or more candidate artists that are
\* substrings of the question, the final list does not depend on the order in
\* which the candidate-artist set is iterated.
C7_OrderIndependent ==
    (pc = "done" /\ run.raw # << >> /\ Cardinality(C7_SubstringArtists) < 2) =>
        \A order \in ArtistOrders(run.raw, interp) :
            Pipeline(run.raw, req.message, req.top_k, interp, order).final = run.final

----------------------------------------------------------------------------
(* Properties of the ingestion handlers and the memory distiller           *)

\* C8: outside a running upsert_items, for every stable identifier submitted
\* by a successful upsert_items the history collection holds exactly one
\* entry under it, and that entry is the record submitted last.
C8_LatestRecordStored ==
    pc # "upsert_embedding" =>
        \A id \in DOMAIN submitted :
            LET held == {e \in hist.docs : e.id = id}
            IN  /\ Cardinality(held) = 1
                /\ \A e \in held :
                        /\ e.metadata = Meta(submitted[id])
                        /\ e.document = RichText(submitted[id])

\* C9: no failure inside distill_and_store_memory reaches its caller.
C9_FailureNeverPropagates == op = "distill" => pc # "failed"

\* the request being served is one that needs the provider
C10_NeedsProvider ==
    \/ op = "chat"
    \/ op \in {"upsert", "rebuild"} /\ batch # << >>

\* C10: with the credential missing no provider call is made, no collection
\* is created or changed, and every operation that needs the provider ends
\* with an error that reports the missing credential (that of ensure_api_key,
\* or the embedding client's own).
C10_ConfigErrorFirst ==
    ~api_key =>
        /\ calls = 0
        /\ hist = NoCollection
        /\ mem = NoCollection
        /\ (C10_NeedsProvider /\ pc # "idle") =>
                /\ pc = "failed"
                /\ response.status = 500
                /\ Contains(response.detail, KeyError) \/ Contains(response.detail, ClientError)

----------------------------------------------------------------------------
(* Properties of the helpers                                               *)

\* the categories in the order the claim gives them, each with the
\* substrings whose presence in the lower-cased URL selects it
C11_Order ==
    << [category |-> "Programming Practice", any |-> {"leetcode.com"}],
       [category |-> "Code Repository", any |-> {"github.com"}],
       [category |-> "AI Assistant", any |-> {"chatgpt.com", "claude.ai", "perplexity.ai"}],
       [category |-> "Documentation", any |-> {"docs.google.com"}],
       [category |-> "Cloud Services", any |-> {"aws"}],
       [category |-> "Social Media", any |-> {"x.com", "twitter.com"}],
       [category |-> "Sports News", any |-> {"cricbuzz.com"}],
       [category |-> "Media", any |-> {"youtube.com", "music.youtube.com"}],
       [category |-> "Music Streaming", any |-> {"spotify.com"}] >>

C11_Matching(url) ==
    {k \in DOMAIN C11_Order : \E sub \in C11_Order[k].any : Contains(Lower(url), sub)}

C11_Expected(url) ==
    IF C11_Matching(url) = {} THEN "General"
    ELSE C11_Order[Least(C11_Matching(url))].category

C11_Categorized == call.fn = "categorize_url" /\ result.returned

\* C11: categorize_url returns the first category, in the fixed order, whose
\* substring test matches the lower-cased URL, and General when none does;
\* the title does not change the result; a URL holding both 'github.com' and
\* 'aws' (and no 'leetcode.com') is a Code Repository wherever the two occur.
C11_FirstMatchingCategory ==
    C11_Categorized =>
        /\ result.value = C11_Expected(call.url)
        /\ \A t \in UrlTitles : categorize_url(call.url, t) = result.value
        /\ ( /\ Contains(Lower(call.url), "github.com")
             /\ Contains(Lower(call.url), "aws")
             /\ ~Contains(Lower(call.url), "leetcode.com") )
           => result.value = "Code Repository"

\* a URL with 'aws' ahead of 'github.com', under a title naming both, was
\* categorized as a Code Repository
C11_Witness ==
    /\ C11_Categorized
    /\ call.url = "/AWS" \o "GitHub.com"
    /\ call.title # ""
    /\ result.value = "Code Repository"

C12_Periods ==
    [Morning |-> 5..11, Afternoon |-> 12..16, Evening |-> 17..21,
     Night |-> (0..4) \union {22, 23}]

C12_PeriodReturned == call.fn = "get_time_period" /\ result.returned

\* C12: for an hour in 0..23 get_time_period returns exactly one of Morning
\* (5..11), Afternoon (12..16), Evening (17..21) and Night (the rest); the
\* hours 5, 12, 17 and 22 are the first of Morning, Afternoon, Evening, Night.
C12_PeriodOfHour ==
    (C12_PeriodReturned /\ call.hour \in 0..23) =>
        /\ result.value \in DOMAIN C12_Periods
        /\ \A p \in DOMAIN C12_Periods :
              result.value = p <=> call.hour \in C12_Periods[p]
        /\ call.hour = 5 => result.value = "Morning"
        /\ call.hour = 12 => result.value = "Afternoon"
        /\ call.hour = 17 => result.value = "Evening"
        /\ call.hour = 22 => result.value = "Night"

\* the boundary hour 22 was given its period
C12_Witness ==
    /\ C12_PeriodReturned
    /\ call.hour = 22
    /\ result.value = "Night"

C13_Resolved == call.fn = "extract_artist_from_query" /\ result.returned

\* the candidate artists of the call being served
C13_Candidates == AllArtists(call.available_titles)

\* the question tokens of the call being served
C13_Tokens == QueryTokens(Lower(call.query))

\* 2 for every (question token, artist token) pair that is equal, 1 for
\* every other pair in which one token is part of the other
C13_Score(artist) ==
    LET ats == Split(Lower(artist))
        pairs == (DOMAIN C13_Tokens) \X (DOMAIN ats)
        exact == {p \in pairs : C13_Tokens[p[1]] = ats[p[2]]}
        partial == {p \in pairs \ exact :
                       \/ Contains(ats[p[2]], C13_Tokens[p[1]])
                       \/ Contains(C13_Tokens[p[1]], ats[p[2]])}
    IN  2 * Cardinality(exact) + Cardinality(partial)

\* the candidates that are, lower-cased, part of the lower-cased question
C13_InQuestion == {a \in C13_Candidates : Contains(Lower(call.query), Lower(a))}

\* C13: extract_artist_from_query returns none when no question token
\* survives the filtering; otherwise a candidate that is part of the question
\* when there is one; otherwise a candidate whose score is at least 1 and
\* maximal among the candidates, and none when every candidate scores 0.  A
\* returned artist is always one of the candidates built from the titles.
C13_ResolvedArtist ==
    C13_Resolved =>
        /\ C13_Tokens = << >> => result.value = None
        /\ (C13_Tokens # << >> /\ C13_InQuestion # {}) =>
              \E a \in C13_InQuestion : result.value = Some(a)
        /\ (C13_Tokens # << >> /\ C13_InQuestion = {}) =>
              IF \A a \in C13_Candidates : C13_Score(a) = 0
              THEN result.value = None
              ELSE \E a \in C13_Candidates :
                      /\ result.value = Some(a)
                      /\ C13_Score(a) >= 1
                      /\ \A b \in C13_Candidates : C13_Score(b) <= C13_Score(a)
        /\ result.value # None => result.value[1] \in C13_Candidates

\* no candidate was part of the question and the one returned outscored
\* another candidate that matched a token too
C13_Witness ==
    /\ C13_Resolved
    /\ C13_Tokens # << >>
    /\ C13_InQuestion = {}
    /\ result.value # None
    /\ \E b \in C13_Candidates :
          C13_Score(b) >= 1 /\ C13_Score(b) < C13_Score(result.value[1])

----------------------------------------------------------------------------
(* Properties of the music branch of chat_structured                       *)

\* a title without its leading "(<digits>) " prefix, lower-cased and trimmed
C14_Normalized(title) == Strip(Lower(StripNumPrefix(title)))

\* a music answer was composed from a non-empty final list
C14_MusicAnswered == pc = "done" /\ interp.is_music_query /\ run.final # << >>

\* the positions in the final list that the rendered song lines cite, in
\* the order of the lines (the header line cites nothing)
C14_Cited ==
    LET cites == [k \in 1..Len(run.lines) |-> CitationOf(run.lines[k])]
        Cites(n) == n > 0
    IN  SelectSeq(cites, Cites)

\* C14: in a music answer no two rendered song lines have the same
\* normalized title; the candidate a line cites is the first of the final
\* list with its normalized title; the lines follow the order in which their
\* candidates first appear in the final list.
C14_SongsDeduplicated ==
    C14_MusicAnswered =>
        LET cited == C14_Cited
            normalized == [n \in 1..Len(run.final) |-> C14_Normalized(run.final[n].title)]
        IN  /\ \A k \in DOMAIN cited : cited[k] \in 1..Len(run.final)
            /\ \A j, k \in DOMAIN cited :
                  j < k => /\ normalized[cited[j]] # normalized[cited[k]]
                           /\ cited[j] < cited[k]
            /\ \A k \in DOMAIN cited :
                  \A n \in 1..(cited[k] - 1) : normalized[n] # normalized[cited[k]]

\* two candidates with different titles and one normalized title were
\* rendered as one line, citing the first
C14_Witness ==
    /\ C14_MusicAnswered
    /\ Len(run.final) = 2
    /\ run.final[1].title # run.final[2].title
    /\ C14_Normalized(run.final[1].title) = C14_Normalized(run.final[2].title)
    /\ C14_Cited = << 1 >>

\* music intent with a resolved, non-empty artist, no YouTube exclusion and
\* room for at least one candidate
C15_ArtistFiltered ==
    /\ pc = "done"
    /\ run.raw # << >>
    /\ interp.is_music_query
    /\ Truthy(run.artist_filter)
    /\ ~interp.exclude_youtube
    /\ req.top_k >= 1

\* the candidates the resolved artist was derived from
C15_Origins ==
    {k \in 1..Len(run.filtered) :
        run.artist_filter[1] \in ArtistsOfTitle(run.filtered[k].title)}

\* C15: with music intent, a non-empty resolved artist, no YouTube exclusion
\* and top_k >= 1, the artist (lower-cased) is part of the lower-cased title
\* of a candidate it was derived from, that candidate survives the exclusion
\* pass, and the response is not the "No songs featuring" one.
C15_ArtistCandidateSurvives ==
    C15_ArtistFiltered =>
        /\ C15_Origins # {}
        /\ \A k \in C15_Origins :
              /\ Contains(Lower(run.filtered[k].title), Lower(run.artist_filter[1]))
              /\ \E n \in 1..Len(run.survivors) : run.survivors[n] = run.filtered[k]
        /\ run.survivors # << >>
        /\ run.final # << >>
        /\ response.sources # << >>
        /\ ~StartsWith(response.answer, "No songs featuring")

\* the artist pass dropped a candidate and kept another
C15_Witness ==
    /\ C15_ArtistFiltered
    /\ Len(run.survivors) < Len(run.filtered)
    /\ run.survivors # << >>
    /\ Lower(run.artist_filter[1]) # run.artist_filter[1]

====
